---- MODULE Spec2Model ----
(***************************************************************************)
(* The application shell of server/app/app.py: the module body builds one  *)
(* FastAPI application with a wildcard CORSMiddleware, mounts StaticFiles  *)
(* at /static and builds a Jinja2Templates renderer.  The framework calls  *)
(* the module makes are modelled by what they do: the constructors' checks *)
(* at import time, and the request path CORSMiddleware -> exception        *)
(* handling -> router -> StaticFiles at request time.                      *)
(*                                                                         *)
(* A URL path is the sequence of its segments after the leading slash:     *)
(* "/docs" is <<"docs">>, "/docs/" is <<"docs", "">>, "/" is <<"">>.       *)
(* An absent header is the empty string (or the empty set for a list).     *)
(***************************************************************************)
EXTENDS Integers, Sequences, FiniteSets, TLC

VARIABLES
    pc,         \* position in the module body: "line7", "line11", "line12", "configured", "failed"
    objs,       \* the FastAPI objects allocated so far, in allocation order
    app,        \* the module global `app`: an index into objs, 0 while unbound
    templates,  \* the module global `templates`
    created,    \* the handle each execution of lines 7-9 bound to `app`
    dirs,       \* the directories that exist in the working directory
    fs,         \* the entries of app/static: name -> "absent", "dir" or the bytes of a file
    served,     \* number of requests served
    last        \* the last request served and its response

vars == <<pc, objs, app, templates, created, dirs, fs, served, last>>

\* ------------------------------------------------------------------ bounds
MaxRequests == 2
MaxHandles == 2
MaxRoutes == 1

\* ------------------------------------------------------- the configuration
StaticUrl == <<"static">>
StaticDir == "app/static"
TemplatesDir == "app/templates"
Dirs == {StaticDir, TemplatesDir}

\* faulty variant: the policy names one trusted origin instead of the wildcard
CorsDescriptor_TrustedOnly ==
    [cls |-> "CORSMiddleware",
     allow_origins |-> {"https://trusted.test"}, allow_methods |-> {"*"},
     allow_headers |-> {"*"}, allow_credentials |-> FALSE]

\* Middleware(CORSMiddleware, allow_origins=["*"], allow_methods=["*"], allow_headers=["*"])
CorsDescriptor ==
    [cls |-> "CORSMiddleware",
     allow_origins |-> {"*"}, allow_methods |-> {"*"}, allow_headers |-> {"*"},
     allow_credentials |-> FALSE]

\* starlette.middleware.cors.ALL_METHODS, what allow_methods=["*"] expands to
ALL_METHODS == {"DELETE", "GET", "HEAD", "OPTIONS", "PATCH", "POST", "PUT"}

\* ------------------------------------------------------------ file system
ABSENT == "absent"
DIR == "dir"
Contents == {"PNG1", "PNG2"}
FsNames == {"logo.png", "css", "missing.png"}

\* os.path.isdir(directory), relative to the working directory
IsDir(directory, ds) == directory \in ds

\* the entry the normalised relative path names under the static directory
Lookup(files, rel) ==
    IF rel = <<>> THEN DIR
    ELSE IF Len(rel) = 1 /\ rel[1] \in DOMAIN files THEN files[rel[1]]
    ELSE ABSENT

\* the validator StaticFiles sends with a file (derived from the file's stat)
ETag(content) == IF content = "PNG1" THEN "etag-PNG1" ELSE "etag-PNG2"

\* --------------------------------------------------------------- requests
Request(m, p, o, arm, arh, ck, inm) ==
    [method |-> m, path |-> p, origin |-> o, acr_method |-> arm,
     acr_headers |-> arh, cookie |-> ck, if_none_match |-> inm]

Paths ==
    { <<"static", "logo.png">>, <<"static", "missing.png">>, <<"static", "css">>,
      <<"static">>, <<"docs">>, <<"docs", "">>, <<"openapi.json">>, <<"items">> }

Origins == {"https://example.com"}

\* Plain requests of every method, without an Origin, with one, and with one
\* and a cookie; GET also as a conditional request; OPTIONS also as a CORS
\* preflight asking for a method and headers.
Requests ==
    { Request(m, p, oc[1], "", {}, oc[2], "") :
        m \in {"GET", "HEAD", "POST", "DELETE", "OPTIONS", "PROPFIND"},
        p \in Paths,
        oc \in {<<"", FALSE>>} \cup (Origins \X BOOLEAN) }
    \cup
    { Request("GET", p, "", "", {}, FALSE, inm) :
        p \in Paths, inm \in {"etag-PNG1", "etag-PNG2"} }
    \cup
    { Request("OPTIONS", p, o, ask[1], ask[2], FALSE, "") :
        p \in Paths, o \in Origins \cup {""},
        ask \in {<<"DELETE", {"x-test"}>>, <<"GET", {}>>, <<"PROPFIND", {}>>} }

\* the requests of the re-execution specification
ProbeRequests ==
    { Request("GET", p, "", "", {}, FALSE, "") :
        p \in {<<"static", "logo.png">>, <<"items">>} }

\* -------------------------------------------------------------- responses
Response(st, b) ==
    [status |-> st, body |-> b, acao |-> "", acam |-> {}, acah |-> {}, vary_origin |-> FALSE]

NoExchange == [req |-> Request("", <<>>, "", "", {}, FALSE, ""), resp |-> Response(0, "")]

\* ----------------------------------------------------------------- routing
Route(p, n) ==
    [kind |-> "route", path |-> p, methods |-> {"GET", "HEAD"}, name |-> n, directory |-> ""]

Mount(p, d, n) ==
    [kind |-> "mount", path |-> p, methods |-> {}, name |-> n, directory |-> d]

\* FastAPI.setup(): the routes the constructor registers with its default
\* openapi_url, docs_url, swagger_ui_oauth2_redirect_url and redoc_url
DefaultRoutes ==
    << Route(<<"openapi.json">>, "openapi"),
       Route(<<"docs">>, "swagger_ui_html"),
       Route(<<"docs", "oauth2-redirect">>, "swagger_ui_redirect"),
       Route(<<"redoc">>, "redoc_html") >>

\* faulty variant: the constructor hands out one shared object
FastAPI_Singleton(heap, middleware) ==
    IF heap # <<>> THEN heap
    ELSE <<[user_middleware |-> middleware, routes |-> DefaultRoutes,
            redirect_slashes |-> TRUE, middleware_stack |-> <<>>]>>

\* faulty variant: the shell registers a route of its own
FastAPI_WithOwnRoute(heap, middleware) ==
    Append(heap, [user_middleware |-> middleware,
                  routes |-> Append(DefaultRoutes, Route(<<"items">>, "items")),
                  redirect_slashes |-> TRUE,
                  middleware_stack |-> <<>>])

\* FastAPI(middleware=[...]): a new object appended to the heap
FastAPI(heap, middleware) ==
    Append(heap, [user_middleware |-> middleware,
                  routes |-> DefaultRoutes,
                  redirect_slashes |-> TRUE,
                  middleware_stack |-> <<>>])

\* Route.matches / Mount.matches
Matches(route, method, path) ==
    IF route.kind = "mount"
    THEN IF Len(path) > Len(route.path) /\ SubSeq(path, 1, Len(route.path)) = route.path
         THEN "FULL" ELSE "NONE"
    ELSE IF path # route.path THEN "NONE"
         ELSE IF method \in route.methods THEN "FULL" ELSE "PARTIAL"

\* StaticFiles.get_path: os.path.normpath of the path below the mount
NormPath(rem) == SelectSeq(rem, LAMBDA seg : seg # "")

\* faulty variant: a missing file surfaces as an unhandled error
StaticFiles_get_response_Raises(req, rem, files) ==
    IF req.method \notin {"GET", "HEAD"} THEN Response(405, "Method Not Allowed")
    ELSE LET entry == Lookup(files, NormPath(rem)) IN
         IF entry \in Contents
         THEN IF req.if_none_match # "" /\ req.if_none_match = ETag(entry)
              THEN Response(304, "")
              ELSE Response(200, IF req.method = "HEAD" THEN "" ELSE entry)
         ELSE Response(500, "Internal Server Error")

\* StaticFiles.get_response, with the HTTPException it raises as the response
\* the exception handler makes of it
StaticFiles_get_response(req, rem, files) ==
    IF req.method \notin {"GET", "HEAD"} THEN Response(405, "Method Not Allowed")
    ELSE LET entry == Lookup(files, NormPath(rem)) IN
         IF entry \in Contents
         THEN IF req.if_none_match # "" /\ req.if_none_match = ETag(entry)
              THEN Response(304, "")
              ELSE Response(200, IF req.method = "HEAD" THEN "" ELSE entry)
         ELSE Response(404, "Not Found")

\* faulty variant: the mount does not strip its prefix from the path
Handle_NoStrip(route, req, files) ==
    IF route.kind = "mount"
    THEN StaticFiles_get_response(req, req.path, files)
    ELSE Response(200, route.name)

\* the response of the route that handles the request
Handle(route, req, files) ==
    IF route.kind = "mount"
    THEN StaticFiles_get_response(
             req, SubSeq(req.path, Len(route.path) + 1, Len(req.path)), files)
    ELSE Response(200, route.name)

\* Router: the path with its trailing slash toggled
ToggleSlash(path) ==
    IF path[Len(path)] = "" THEN SubSeq(path, 1, Len(path) - 1) ELSE Append(path, "")

Min(S) == CHOOSE x \in S : \A y \in S : x <= y

\* Router.app: the first full match, else a partial match (405), else the
\* slash redirect, else not found
Router_app(h, req, files) ==
    LET idx == DOMAIN h.routes
        full == {i \in idx : Matches(h.routes[i], req.method, req.path) = "FULL"}
        partial == {i \in idx : Matches(h.routes[i], req.method, req.path) = "PARTIAL"}
    IN  IF full # {} THEN Handle(h.routes[Min(full)], req, files)
        ELSE IF partial # {} THEN Response(405, "Method Not Allowed")
        ELSE IF /\ h.redirect_slashes
                /\ req.path # <<"">>
                /\ \E i \in idx :
                      Matches(h.routes[i], req.method, ToggleSlash(req.path)) # "NONE"
             THEN Response(307, "")
        ELSE Response(404, "Not Found")

\* ------------------------------------------------------------------- CORS
\* CORSMiddleware.__init__
CORSMiddleware_init(d) ==
    [allow_origins |-> d.allow_origins,
     allow_methods |-> IF "*" \in d.allow_methods THEN ALL_METHODS ELSE d.allow_methods,
     allow_headers |-> d.allow_headers,
     allow_all_origins |-> "*" \in d.allow_origins,
     allow_all_headers |-> "*" \in d.allow_headers,
     preflight_explicit_allow_origin |-> ("*" \notin d.allow_origins) \/ d.allow_credentials]

is_allowed_origin(mw, origin) == mw.allow_all_origins \/ origin \in mw.allow_origins

\* CORSMiddleware.preflight_response
preflight_response(mw, req) ==
    LET origin_ok == is_allowed_origin(mw, req.origin)
        method_ok == req.acr_method \in mw.allow_methods
        headers_ok == mw.allow_all_headers \/ req.acr_headers \subseteq mw.allow_headers
        ok == origin_ok /\ method_ok /\ headers_ok
    IN  [status |-> IF ok THEN 200 ELSE 400,
         body |-> IF ok THEN "OK" ELSE "Disallowed CORS",
         acao |-> IF ~mw.preflight_explicit_allow_origin THEN "*"
                  ELSE IF origin_ok THEN req.origin ELSE "",
         acam |-> mw.allow_methods,
         acah |-> IF mw.allow_all_headers THEN req.acr_headers
                  ELSE mw.allow_headers \ {"*"},
         vary_origin |-> mw.preflight_explicit_allow_origin]

\* CORSMiddleware.simple_response / send: the inner application's response
\* with the simple headers added
simple_response(mw, req, inner) ==
    LET explicit == \/ mw.allow_all_origins /\ req.cookie
                    \/ ~mw.allow_all_origins /\ is_allowed_origin(mw, req.origin)
    IN  [inner EXCEPT
            !.acao = IF explicit THEN req.origin
                     ELSE IF mw.allow_all_origins THEN "*" ELSE "",
            !.vary_origin = explicit]

\* CORSMiddleware.__call__
CORSMiddleware_call(mw, req, inner) ==
    IF req.origin = "" THEN inner
    ELSE IF req.method = "OPTIONS" /\ req.acr_method # "" THEN preflight_response(mw, req)
    ELSE simple_response(mw, req, inner)

\* ------------------------------------------------------- middleware stack
Plain(cls) ==
    [cls |-> cls, allow_origins |-> {}, allow_methods |-> {}, allow_headers |-> {},
     allow_credentials |-> FALSE]

\* build_middleware_stack: ServerErrorMiddleware, the user middleware,
\* ExceptionMiddleware, around the router
build_middleware_stack(h) ==
    <<Plain("ServerErrorMiddleware")>> \o h.user_middleware \o <<Plain("ExceptionMiddleware")>>

RECURSIVE Call(_, _, _, _, _)
\* the response of the stack from its i-th layer inwards
Call(stack, i, h, req, files) ==
    IF i > Len(stack) THEN Router_app(h, req, files)
    ELSE IF stack[i].cls = "CORSMiddleware"
         THEN CORSMiddleware_call(CORSMiddleware_init(stack[i]), req,
                                  Call(stack, i + 1, h, req, files))
         ELSE Call(stack, i + 1, h, req, files)

\* ----------------------------------------------------------- constructors
\* faulty variant: the directory check is off
StaticFiles_init_NoCheck(directory, ds) == TRUE

\* faulty variant: the check looks at another directory
StaticFiles_init_WrongDir(directory, ds) == IsDir("static", ds)

\* StaticFiles.__init__ with check_dir=True: TRUE when construction succeeds,
\* FALSE when it raises RuntimeError (the directory does not exist)
StaticFiles_init(directory, ds) == IsDir(directory, ds)

\* faulty variant: the renderer checks its directory as StaticFiles does
Jinja2Templates_init_Checked(directory, ds) == IsDir(directory, ds)

\* Jinja2Templates.__init__: builds a FileSystemLoader over the directory,
\* which stores the search path without looking at it
Jinja2Templates_init(directory, ds) == TRUE

None == [class |-> "NoneType", directory |-> ""]
Jinja2Templates(directory) == [class |-> "Jinja2Templates", directory |-> directory]

\* ------------------------------------------------------------------- Init
StaticEntries(ds) ==
    IF StaticDir \in ds
    THEN { [n \in FsNames |->
               IF n = "logo.png" THEN c ELSE IF n = "css" THEN DIR ELSE ABSENT] :
           c \in Contents \cup {ABSENT} }
    ELSE { [n \in FsNames |-> ABSENT] }

Init ==
    /\ pc = "line7"
    /\ objs = <<>>
    /\ app = 0
    /\ templates = None
    /\ created = <<>>
    /\ dirs \in SUBSET Dirs
    /\ fs \in StaticEntries(dirs)
    /\ served = 0
    /\ last = NoExchange

\* ---------------------------------------------------------------- startup
\* lines 7-9: app = FastAPI(middleware=[Middleware(CORSMiddleware, ...)])
Line7 ==
    /\ pc = "line7"
    /\ objs' = FastAPI(objs, <<CorsDescriptor>>)
    /\ app' = Len(objs')
    /\ created' = Append(created, app')
    /\ pc' = "line11"
    /\ UNCHANGED <<templates, dirs, fs, served, last>>

\* line 11: app.mount("/static", StaticFiles(directory="app/static"), name="static")
Line11 ==
    /\ pc = "line11"
    /\ IF StaticFiles_init(StaticDir, dirs)
       THEN /\ objs' = [objs EXCEPT ![app].routes =
                            Append(@, Mount(StaticUrl, StaticDir, "static"))]
            /\ pc' = "line12"
       ELSE /\ pc' = "failed"
            /\ UNCHANGED objs
    /\ UNCHANGED <<app, templates, created, dirs, fs, served, last>>

\* line 12: templates = Jinja2Templates(directory="app/templates")
Line12 ==
    /\ pc = "line12"
    /\ IF Jinja2Templates_init(TemplatesDir, dirs)
       THEN /\ templates' = Jinja2Templates(TemplatesDir)
            /\ pc' = "configured"
       ELSE /\ pc' = "failed"
            /\ UNCHANGED templates
    /\ UNCHANGED <<objs, app, created, dirs, fs, served, last>>

Startup == Line7 \/ Line11 \/ Line12

\* ---------------------------------------------------------------- serving
\* faulty variant: every request adds the middleware again
AfterCall_AddsMiddleware(h) ==
    [h EXCEPT !.user_middleware = Append(@, CorsDescriptor),
              !.middleware_stack = build_middleware_stack(h)]

\* the state of the handle after a request: Starlette builds the middleware
\* stack on the first call and keeps it
AfterCall(h) ==
    [h EXCEPT !.middleware_stack = IF @ = <<>> THEN build_middleware_stack(h) ELSE @]

\* faulty variant: requests are taken as soon as the object exists
ServeFrom_Early(reqs) ==
    /\ app \in DOMAIN objs
    /\ served < MaxRequests
    /\ \E req \in reqs :
          LET h == AfterCall(objs[app]) IN
          /\ objs' = [objs EXCEPT ![app] = h]
          /\ last' = [req |-> req, resp |-> Call(h.middleware_stack, 1, h, req, fs)]
    /\ served' = served + 1
    /\ UNCHANGED <<pc, app, templates, created, dirs, fs>>

\* Starlette.__call__ on the imported application, once the import is over
ServeFrom(reqs) ==
    /\ pc = "configured"
    /\ served < MaxRequests
    /\ \E req \in reqs :
          LET h == AfterCall(objs[app]) IN
          /\ objs' = [objs EXCEPT ![app] = h]
          /\ last' = [req |-> req, resp |-> Call(h.middleware_stack, 1, h, req, fs)]
    /\ served' = served + 1
    /\ UNCHANGED <<pc, app, templates, created, dirs, fs>>

Serve == ServeFrom(Requests)

Next == Line7 \/ Line11 \/ Line12 \/ Serve

Spec == Init /\ [][Next]_vars

\* The module body runs top to bottom without waiting on anything.
FairSpec == Spec /\ WF_vars(Startup)

\* ------------------------------------------- a second execution of the body
\* the body of the module executed again in the same process
Reload ==
    /\ pc = "configured"
    /\ Len(created) < MaxHandles
    /\ pc' = "line7"
    /\ UNCHANGED <<objs, app, templates, created, dirs, fs, served, last>>

\* a registration by the entry collaborator on a handle it holds
AddRoute(h) ==
    /\ h \in DOMAIN objs
    /\ Cardinality({i \in DOMAIN objs[h].routes : objs[h].routes[i].name = "items"}) < MaxRoutes
    /\ objs' = [objs EXCEPT ![h].routes = Append(@, Route(<<"items">>, "items"))]
    /\ UNCHANGED <<pc, app, templates, created, dirs, fs, served, last>>

Register == \E h \in 1..MaxHandles : AddRoute(h)

ServeProbe == ServeFrom(ProbeRequests)

ReloadNext == Line7 \/ Line11 \/ Line12 \/ ServeProbe \/ Reload \/ Register

ReloadSpec == Init /\ [][ReloadNext]_vars

\* ================================================================ claims
Served == served > 0
Req == last.req
Resp == last.resp

\* the entry a request path under /static/ names in the static directory
StaticEntry(path) == Lookup(fs, NormPath(SubSeq(path, 2, Len(path))))

UnderStatic(path) == Len(path) > 1 /\ path[1] = "static"

IsPreflight(req) == req.method = "OPTIONS" /\ req.acr_method # ""

\* what a browser reads from the cross-origin headers of a response: the
\* origin is permitted by * or by its own name; a preflight must succeed and
\* list the requested method and headers; an actual response must not list
\* methods that leave the request's method out
Permits(req, resp) ==
    /\ resp.acao # ""
    /\ resp.acao \in {"*", req.origin}
    /\ IF IsPreflight(req)
       THEN /\ resp.status \in 200..299
            /\ req.acr_method \in resp.acam
            /\ req.acr_headers \subseteq resp.acah
       ELSE resp.acam = {} \/ req.method \in resp.acam

\* C1 as stated: every response, whatever the request's origin, method and
\* headers, carries cross-origin headers that permit them.
C1_AsStated == Served => Permits(Req, Resp)

\* C1 (amended): every request that carries an Origin header, and as a
\* preflight asks for one of the standard methods, gets a response whose
\* cross-origin headers permit its origin, its method and its headers; this
\* includes requests to the static mount and requests that end in not-found.
C1_CorsOnOriginRequests ==
    (Served /\ Req.origin # "" /\ (IsPreflight(Req) => Req.acr_method \in ALL_METHODS))
        => Permits(Req, Resp)

C1_Witness ==
    /\ Served
    /\ Req.origin = "https://example.com"
    /\ Req.method = "OPTIONS" /\ Req.acr_method = "DELETE" /\ Req.acr_headers = {"x-test"}
    /\ Req.path = <<"static", "missing.png">>
    /\ Resp.status = 200 /\ Resp.acao = "*"
    /\ "DELETE" \in Resp.acam /\ "x-test" \in Resp.acah

\* C2: when app/static does not exist at startup, the module never reaches
\* the configured state and no request is ever served.
C2_StaticDirMissingFailsFast ==
    (StaticDir \notin dirs) => (pc \notin {"line12", "configured"} /\ served = 0)

C2_Witness == StaticDir \notin dirs /\ pc = "failed" /\ app # 0

\* C3 as stated: when app/templates does not exist at startup, startup fails
\* and no request is ever accepted.
C3_AsStated == (TemplatesDir \notin dirs) => (pc # "configured" /\ served = 0)

\* C3 (amended): a missing templates directory does not fail startup; startup
\* fails only for a missing static directory, and whenever the body completes
\* the renderer is bound to app/templates, checked or not.
C3_TemplatesDirNotChecked ==
    /\ pc = "failed" => StaticDir \notin dirs
    /\ pc = "configured" => templates = Jinja2Templates(TemplatesDir)
    /\ Served => pc = "configured"

C3_Witness == TemplatesDir \notin dirs /\ pc = "configured" /\ Served

\* C4: when both directories exist, startup ends in the configured state with
\* an application handle and a template renderer.
C4_ValidDirsConfigure ==
    (Dirs \subseteq dirs) ~>
        (pc = "configured" /\ app \in DOMAIN objs /\ templates.class = "Jinja2Templates")

C4_Witness ==
    /\ Dirs \subseteq dirs
    /\ pc = "configured" /\ app \in DOMAIN objs /\ templates.class = "Jinja2Templates"

\* C5 as stated: every GET for an existing file under /static returns 200
\* with the file's bytes.
C5_AsStated ==
    (Served /\ Req.method = "GET" /\ UnderStatic(Req.path)
        /\ StaticEntry(Req.path) \in Contents)
    => (Resp.status = 200 /\ Resp.body = StaticEntry(Req.path))

\* C5 (amended): a GET for an existing file under /static returns 200 with
\* exactly the file's bytes unless it is a conditional request whose validator
\* matches the file, which is answered 304 with an empty body.
C5_StaticFileBytes ==
    (Served /\ Req.method = "GET" /\ UnderStatic(Req.path)
        /\ StaticEntry(Req.path) \in Contents)
    => IF Req.if_none_match = ETag(StaticEntry(Req.path))
       THEN Resp.status = 304 /\ Resp.body = ""
       ELSE Resp.status = 200 /\ Resp.body = StaticEntry(Req.path)

C5_Witness ==
    /\ Served /\ Req.method = "GET" /\ Req.path = <<"static", "logo.png">>
    /\ fs["logo.png"] = "PNG2" /\ Req.if_none_match = "etag-PNG1"
    /\ Resp.status = 200 /\ Resp.body = "PNG2"

\* C6 as stated: every request for a path under /static that names no file
\* returns 404.
C6_AsStated ==
    (Served /\ UnderStatic(Req.path) /\ StaticEntry(Req.path) \notin Contents)
    => Resp.status = 404

\* C6 (amended): a GET or HEAD request for a path under /static that names no
\* file returns 404; with any method the answer is never a server error, and
\* the application stays configured and ready for the next request.
C6_StaticMissingNotFound ==
    (Served /\ UnderStatic(Req.path) /\ StaticEntry(Req.path) \notin Contents)
    => /\ Req.method \in {"GET", "HEAD"} => Resp.status = 404
       /\ Resp.status < 500
       /\ pc = "configured"
       /\ served < MaxRequests => ENABLED Serve

C6_Witness ==
    /\ served > 1 /\ Req.method = "GET" /\ Req.path = <<"static", "missing.png">>
    /\ Resp.status = 404

\* C7: a second execution of the construction yields a handle of its own:
\* the handles are distinct objects, and a step that changes one object
\* (a mount, a route registration, the stack built on the first request)
\* leaves every other object as it was.
C7_IndependentHandles ==
    /\ [](\A i, j \in DOMAIN created : i # j => created[i] # created[j])
    /\ [][\A g, h \in DOMAIN objs :
             (g # h /\ objs'[h] # objs[h]) => objs'[g] = objs[g]]_vars

C7_Witness ==
    /\ Len(created) = 2 /\ created[1] # created[2] /\ pc = "configured"
    /\ \E i \in DOMAIN objs[created[1]].routes : objs[created[1]].routes[i].name = "items"
    /\ \A i \in DOMAIN objs[created[2]].routes : objs[created[2]].routes[i].name # "items"

\* C8: being configured is never undone, the application is constructed at
\* most once, and a request is served only in the configured state.
C8_ConfiguredOnceBeforeServing ==
    /\ [](Len(created) <= 1)
    /\ [](Served => pc = "configured")
    /\ [][(pc = "configured" => pc' = "configured")
          /\ (served' # served => pc = "configured")]_vars

C8_Witness == pc = "configured" /\ served > 1 /\ Len(created) = 1

\* the paths of the documentation routes FastAPI serves by default
BuiltinPaths ==
    { <<"openapi.json">>, <<"docs">>, <<"docs", "oauth2-redirect">>, <<"redoc">> }

\* C9 as stated: with no route registered by the entry collaborator, only
\* paths under /static are answered with anything other than not-found.
C9_AsStated ==
    (Served /\ Resp.status # 404) => (Req.path[1] = "static")

\* C9 (amended): with no route registered by the entry collaborator, a
\* request is answered with something other than not-found only if its path
\* is under /static, or is one of the framework's documentation routes (or
\* differs from one by a trailing slash), or the request is a cross-origin
\* preflight, which the middleware answers for any path.
C9_OnlyStaticAndBuiltins ==
    (Served /\ Resp.status # 404)
    => \/ Req.path[1] = "static"
       \/ Req.path \in BuiltinPaths
       \/ ToggleSlash(Req.path) \in BuiltinPaths
       \/ IsPreflight(Req) /\ Req.origin # ""

C9_Witness ==
    /\ Served /\ Req.method = "GET" /\ Req.path = <<"docs">> /\ Req.origin = ""
    /\ Resp.status = 200

\* the configuration a handle holds
Config(h) == <<h.user_middleware, h.routes, h.redirect_slashes>>

\* C10: serving a request changes neither the configuration of the handle,
\* nor the bindings of app and templates; the configuration changes only
\* while the module body runs, and once configured it is the CORS middleware,
\* the mount of app/static at /static and the renderer over app/templates.
C10_ServingLeavesConfiguration ==
    /\ [](pc = "configured" =>
            /\ Len(objs[app].user_middleware) = 1
            /\ objs[app].user_middleware[1].cls = "CORSMiddleware"
            /\ objs[app].user_middleware[1].allow_origins = {"*"}
            /\ objs[app].user_middleware[1].allow_methods = {"*"}
            /\ objs[app].user_middleware[1].allow_headers = {"*"}
            /\ \E i \in DOMAIN objs[app].routes :
                  objs[app].routes[i] = Mount(<<"static">>, "app/static", "static")
            /\ templates.directory = "app/templates")
    /\ [][/\ served' # served =>
                /\ Config(objs'[app]) = Config(objs[app])
                /\ app' = app /\ templates' = templates /\ pc' = pc
          /\ (app \in DOMAIN objs /\ app' = app /\ Config(objs'[app]) # Config(objs[app]))
                => pc # "configured"]_vars

C10_Witness ==
    /\ served > 1 /\ pc = "configured"
    /\ objs[app].middleware_stack # <<>>
    /\ Len(objs[app].routes) = Len(DefaultRoutes) + 1
====
